---- MODULE Spec2Model ----
(***************************************************************************)
(* Model of the real-time event router of vape4you2 (lib/socket):          *)
(* the presence registry `connectedUsers`, the Socket.IO room membership   *)
(* of every connection, the process-wide router handle, and one action per *)
(* server-side event handler and per server-side emitter; and of the       *)
(* client adapter useSocket: the sockets one hook instance creates, their  *)
(* reconnection, and the join-user each of them announces on connect; and  *)
(* of the UI surfaces that use it: the listeners their subscription        *)
(* effects register, and the typing timer of the chat page.                *)
(* Every handler runs to completion on the single event loop, so each      *)
(* handler is one atomic action.                                           *)
(***************************************************************************)
EXTENDS Integers, Sequences, FiniteSets, TLC

\* Number of transport connections (socket ids 1..MaxConns) ever opened.
MaxConns == 2

\* Number of join-user events the router handles in one run.
MaxJoins == 3

\* Number of sockets one instance of the client adapter creates.
MaxSockets == 2

\* Number of times the subscription effect of a UI surface runs.
MaxRuns == 3

\* Number of keystrokes in the message input of the chat page.
MaxKeys == 4

\* reconnectionAttempts of the client adapter's sockets
ReconnectionAttempts == 8

Conns == 1..MaxConns

\* Values a client can put in the fields of its payloads.
UserIds == {"A", "B"}
Roles == {"vendor", "client"}
Names == {"n1", "n2"}
\* "chat1" is a session of the chat store; "vendor" is a chatId that is also a room name.
ChatIds == {"chat1", "vendor"}
MessageIds == {"m1"}
Messages == {"hi"}
OrderIds == {"o1"}
Statuses == {"shipped"}
Amounts == {"10.00"}
PaymentMethods == {"bitcoin"}
\* vendorId of the order payloads: no handler reads it
VendorIds == {"B"}
\* The names drawn by the joins of SpecOrders: order routing does not read the name
OrderNames == {"n1"}

\* socket.userId before join-user has run on the connection.
Unset == "unset"
\* The value of a field the payload does not have
Undefined == "undefined"
\* The user ids a join-user payload can carry
JoinIds == UserIds \cup {Undefined}
\* The id and timestamp of a send-message request: those of the stored message, or none
Stamps == {[id |-> "m1", timestamp |-> "t1"], [id |-> Undefined, timestamp |-> Undefined]}
NoConn == 0
\* typingTimeoutRef.current when it is null
NoTimer == 0
\* selectedSession when it is null
NoSession == "none"
\* The chat sessions of the user's session list
Sessions == {"s1", "s2", "s3"}
\* The UI surfaces that subscribe to the adapter's socket
Pages == {"orders", "vendor", "chat"}
\* The events they listen to
SurfaceEvents == {"order-updated", "order-created", "order-status-changed", "receive-message"}
\* socketRef.current when it is null
NoSocket == 0
\* The identity inputs of the client adapter: complete, or still without a user
NoIdentity == [userId |-> Undefined, role |-> Undefined, name |-> Undefined]
Identities == {[userId |-> "A", role |-> "client", name |-> "n1"],
               [userId |-> "B", role |-> "vendor", name |-> "n1"],
               NoIdentity}

VARIABLES
    io,              \* io.server: res.socket.server.io is set; io.global: globalThis.__io is set
    sock,            \* sock[c]: state of connection c and its socket.userId/userRole/userName
    rooms,           \* rooms[c]: names of the rooms connection c has joined
    connectedUsers,  \* the Map of initSocketServer, in insertion order
    last,            \* the event the router handled last
    out,             \* the emissions of that handler, in order, each with its receivers
    lastJoin,        \* history: lastJoin[u] is the connection of the latest join-user for u
    onlineSent,      \* history: onlineSent[c][u] is the latest user-online c's joins broadcast for u
    nJoins,          \* number of join-user events handled so far
    surface,         \* the UI surface that calls useSocket: unmounted, mounted or torn down
    identity,        \* the userId, userRole and userName of its latest render
    sockets,         \* the sockets its effects created, in creation order
    socketRef,       \* socketRef.current: an index into sockets, or NoSocket
    wire,            \* wire[c]: the join-user events sent on connection c, not yet handled
    page,            \* the UI surface that subscribes to the socket: orders, vendor or chat
    pageMounted,     \* the surface is mounted
    handlers,        \* handlers[e]: number of listeners of event e on the surface's socket
    pending,         \* the last run of the subscription effect returned a cleanup
    subscribed,      \* the last run of the subscription effect registered its listeners
    effectRuns,      \* number of runs of the subscription effect so far
    invoked,         \* the event delivered last and the number of listeners it invoked
    selected,        \* selectedSession of the chat page
    timers,          \* the pending setTimeout callbacks of the message input
    timeoutRef,      \* typingTimeoutRef.current
    keys,            \* number of keystrokes so far
    owed             \* history: sessions with a typing emitted and no stop-typing since

\* The client adapter and what it has in flight
adapter == <<surface, identity, sockets, socketRef, wire>>

\* The UI surfaces
ui == <<page, pageMounted, handlers, pending, subscribed, effectRuns, invoked,
        selected, timers, timeoutRef, keys, owed>>

\* Everything on the client side
client == <<adapter, ui>>

vars == <<io, sock, rooms, connectedUsers, last, out, lastJoin, onlineSent, nJoins,
          surface, identity, sockets, socketRef, wire,
          page, pageMounted, handlers, pending, subscribed, effectRuns, invoked,
          selected, timers, timeoutRef, keys, owed>>

\* What the handlers of the domain events leave alone
router == <<io, sock, rooms, connectedUsers, lastJoin, onlineSent, nJoins, client>>

----------------------------------------------------------------------------
\* Rooms and emission targets

\* `user-${userId}`
UserRoom(u) == "user-" \o u

\* Mutant of Connected: a router that keeps emitting to the sockets that have closed
ConnectedOrClosed == {c \in Conns : sock[c].state # "fresh"}

\* The sockets of io.sockets: accepted and not yet closed
Connected == {c \in Conns : sock[c].state = "connected"}

\* Mutant of IoEmit: an emit that only reaches the sockets that have identified themselves
IoEmitIdentified == {c \in Connected : sock[c].userId # Unset}

\* io.emit(...): every connected socket
IoEmit == Connected

\* io.to(room).emit(...): every connected socket that joined the room
IoTo(room) == {c \in Connected : room \in rooms[c]}

\* socket.broadcast.to(room).emit(...): the room without the emitting socket
BroadcastTo(s, room) == IoTo(room) \ {s}

\* socket.emit(...): the emitting socket only
SocketEmit(s) == {s}

Emission(ev, data, to) == [ev |-> ev, data |-> data, to |-> to]

----------------------------------------------------------------------------
\* The presence registry: a JavaScript Map keeps its keys in insertion order

Keys(m) == {m[i].userId : i \in 1..Len(m)}

IndexOf(m, u) == CHOOSE i \in 1..Len(m) : m[i].userId = u

\* Mutant of MapSet: a set that never overwrites, so a re-join adds a second entry
MapSetAppend(m, u, c, role, name) ==
    Append(m, [userId |-> u, socketId |-> c, role |-> role, name |-> name, online |-> TRUE])

\* connectedUsers.set(userId, {socketId, role, name, online: true})
MapSet(m, u, c, role, name) ==
    LET e == [userId |-> u, socketId |-> c, role |-> role, name |-> name, online |-> TRUE]
    IN  IF u \in Keys(m) THEN [m EXCEPT ![IndexOf(m, u)] = e] ELSE Append(m, e)

\* connectedUsers.delete(userId) of the entry at position i
MapDeleteAt(m, i) == SubSeq(m, 1, i - 1) \o SubSeq(m, i + 1, Len(m))

\* Mutant of Matching: a handler that looks its user up by the id the socket announced
MatchingAnnounced(m, c) == {i \in 1..Len(m) : m[i].userId = sock[c].userId}

\* The entries the disconnect loop matches: user.socketId === socket.id
Matching(m, c) == {i \in 1..Len(m) : m[i].socketId = c}

\* The loop breaks at the first match in iteration (insertion) order
FirstMatch(m, c) == CHOOSE i \in Matching(m, c) : \A j \in Matching(m, c) : i <= j

----------------------------------------------------------------------------
NoEvent == [ev |-> "none", conn |-> NoConn]

Init ==
    /\ io = [server |-> FALSE, global |-> FALSE]
    /\ sock = [c \in Conns |-> [state |-> "fresh", userId |-> Unset,
                                userRole |-> Unset, userName |-> Unset]]
    /\ rooms = [c \in Conns |-> {}]
    /\ connectedUsers = <<>>
    /\ last = NoEvent
    /\ out = <<>>
    /\ lastJoin = [u \in JoinIds |-> NoConn]
    /\ onlineSent = [c \in Conns |-> [u \in JoinIds |-> <<>>]]
    /\ nJoins = 0
    /\ surface = "unmounted"
    /\ identity = NoIdentity
    /\ sockets = <<>>
    /\ socketRef = NoSocket
    /\ wire = [c \in Conns |-> <<>>]
    /\ page = "none"
    /\ pageMounted = FALSE
    /\ handlers = [e \in SurfaceEvents |-> 0]
    /\ pending = FALSE
    /\ subscribed = FALSE
    /\ effectRuns = 0
    /\ invoked = [event |-> "none", count |-> 0]
    /\ selected = NoSession
    /\ timers = {}
    /\ timeoutRef = NoTimer
    /\ keys = 0
    /\ owed = {}

\* initSocketServer: the first call creates the router, its registry and both handles;
\* every later call returns the router it finds
InitSocketServer ==
    IF ~io.server
    THEN /\ io' = [server |-> TRUE, global |-> TRUE]
         /\ connectedUsers' = <<>>
         /\ last' = [ev |-> "initSocketServer", conn |-> NoConn]
         /\ out' = <<>>
         /\ UNCHANGED <<sock, rooms, lastJoin, onlineSent, nJoins>>
    ELSE UNCHANGED vars

\* io.on('connection'): a new socket, with a fresh id, no custom fields, no rooms
Connection(c) ==
    /\ io.server
    /\ sock[c].state = "fresh"
    /\ \A d \in Conns : d < c => sock[d].state # "fresh"
    /\ sock' = [sock EXCEPT ![c].state = "connected"]
    /\ last' = [ev |-> "connection", conn |-> c]
    /\ out' = <<>>
    /\ UNCHANGED <<io, rooms, connectedUsers, lastJoin, onlineSent, nJoins>>

\* socket.on('join-user', ({ userId, role, name }) => ...)
JoinUser(c, userId, role, name) ==
    /\ sock[c].state = "connected"
    /\ nJoins < MaxJoins
    /\ nJoins' = nJoins + 1
    /\ sock' = [sock EXCEPT ![c].userId = userId, ![c].userRole = role, ![c].userName = name]
    /\ rooms' = [rooms EXCEPT ![c] = @ \cup {UserRoom(userId), role}]
    /\ connectedUsers' = MapSet(connectedUsers, userId, c, role, name)
    /\ last' = [ev |-> "join-user", conn |-> c, userId |-> userId, role |-> role, name |-> name]
    /\ out' = << Emission("user-online",
                          [userId |-> userId, role |-> role, name |-> name, online |-> TRUE],
                          IoEmit) >>
    /\ lastJoin' = [lastJoin EXCEPT ![userId] = c]
    /\ onlineSent' = [onlineSent EXCEPT ![c][userId] =
                          <<[userId |-> userId, role |-> role, name |-> name]>>]
    /\ UNCHANGED io

\* Mutant of OfflineEmissions: the loop without its socketId test reports the first entry
OfflineEmissionsFirstEntry(m, c, receivers) ==
    IF Matching(m, c) = {} THEN <<>>
    ELSE << Emission("user-offline",
                     [userId |-> m[1].userId, name |-> m[1].name,
                      role |-> m[1].role, online |-> FALSE],
                     receivers) >>

\* The emissions of the disconnect handler: user-offline for the first matching entry
OfflineEmissions(m, c, receivers) ==
    IF Matching(m, c) = {} THEN <<>>
    ELSE LET user == m[FirstMatch(m, c)]
         IN  << Emission("user-offline",
                         [userId |-> user.userId, name |-> user.name,
                          role |-> user.role, online |-> FALSE],
                         receivers) >>

\* Mutant of AfterDisconnect: a loop without its break deletes every matching entry
AfterDisconnectAll(m, c) == SelectSeq(m, LAMBDA e : e.socketId # c)

\* The registry after the disconnect handler
AfterDisconnect(m, c) ==
    IF Matching(m, c) = {} THEN m ELSE MapDeleteAt(m, FirstMatch(m, c))

\* socket.on('disconnect'): the socket has left its rooms and is no longer connected
\* when the handler runs
Disconnect(c) ==
    /\ sock[c].state = "connected"
    /\ sock' = [sock EXCEPT ![c].state = "disconnected"]
    /\ rooms' = [rooms EXCEPT ![c] = {}]
    /\ connectedUsers' = AfterDisconnect(connectedUsers, c)
    /\ last' = [ev |-> "disconnect", conn |-> c]
    /\ out' = OfflineEmissions(connectedUsers, c, Connected \ {c})
    /\ UNCHANGED <<io, lastJoin, onlineSent, nJoins>>

----------------------------------------------------------------------------
\* Domain events: none of their handlers touches the registry or the rooms

\* `msg-${Date.now()}-${Math.random()...}` and new Date().toISOString()
GeneratedId == "msg-generated"
Now == "now"

\* The chat store's sessions: session id -> its two participants (vendorId, clientId)
Participants(chatId) == IF chatId = "chat1" THEN {"A", "B"} ELSE {}

\* The emissions of the send-message handler
SendMessageEmissions(c, chatId, message, recipientId, senderId) ==
    LET fullMessage == [id |-> GeneratedId, chatId |-> chatId, senderId |-> senderId,
                        message |-> message, timestamp |-> Now, recipientId |-> recipientId]
    IN  << Emission("receive-message", fullMessage, IoTo(UserRoom(recipientId))),
           Emission("message-sent", fullMessage, SocketEmit(c)) >>

\* socket.on('send-message', async ({ chatId, message, recipientId, senderId }) => ...)
SendMessage(c, chatId, message, recipientId, senderId, id, timestamp) ==
    /\ sock[c].state = "connected"
    /\ last' = [ev |-> "send-message", conn |-> c, chatId |-> chatId, message |-> message,
                recipientId |-> recipientId, senderId |-> senderId,
                id |-> id, timestamp |-> timestamp]
    /\ out' = SendMessageEmissions(c, chatId, message, recipientId, senderId)
    /\ UNCHANGED router

\* The emissions of the typing handler
TypingEmissions(c, chatId, name) ==
    << Emission("user-typing", [chatId |-> chatId, name |-> name], BroadcastTo(c, chatId)) >>

\* socket.on('typing', ({ chatId, userId, name }) => ...): userId is not used
Typing(c, chatId, userId, name) ==
    /\ sock[c].state = "connected"
    /\ last' = [ev |-> "typing", conn |-> c, chatId |-> chatId, name |-> name]
    /\ out' = TypingEmissions(c, chatId, name)
    /\ UNCHANGED router

\* The emissions of the stop-typing handler
StopTypingEmissions(c, chatId) ==
    << Emission("user-stop-typing", [chatId |-> chatId], BroadcastTo(c, chatId)) >>

\* socket.on('stop-typing', ({ chatId }) => ...)
StopTyping(c, chatId) ==
    /\ sock[c].state = "connected"
    /\ last' = [ev |-> "stop-typing", conn |-> c, chatId |-> chatId]
    /\ out' = StopTypingEmissions(c, chatId)
    /\ UNCHANGED router

\* The emissions of the mark-read handler
MarkReadEmissions(chatId, messageId, userId) ==
    << Emission("message-read",
                [chatId |-> chatId, messageId |-> messageId, userId |-> userId],
                IoTo(chatId)) >>

\* socket.on('mark-read', ({ chatId, messageId, userId }) => ...)
MarkRead(c, chatId, messageId, userId) ==
    /\ sock[c].state = "connected"
    /\ last' = [ev |-> "mark-read", conn |-> c, chatId |-> chatId,
                messageId |-> messageId, userId |-> userId]
    /\ out' = MarkReadEmissions(chatId, messageId, userId)
    /\ UNCHANGED router

\* Mutant of OrderPaidEmissions: payment-confirmed sent with io.emit
OrderPaidEmissionsToAll(orderId, userId, amount, paymentMethod) ==
    << Emission("new-order-payment",
                [orderId |-> orderId, userId |-> userId, amount |-> amount,
                 paymentMethod |-> paymentMethod, timestamp |-> Now],
                IoTo("vendor")),
       Emission("payment-confirmed", [orderId |-> orderId], IoEmit) >>

\* The emissions of the order-paid handler
OrderPaidEmissions(orderId, userId, amount, paymentMethod) ==
    << Emission("new-order-payment",
                [orderId |-> orderId, userId |-> userId, amount |-> amount,
                 paymentMethod |-> paymentMethod, timestamp |-> Now],
                IoTo("vendor")),
       Emission("payment-confirmed", [orderId |-> orderId], IoTo(UserRoom(userId))) >>

\* socket.on('order-paid', ({ orderId, userId, vendorId, amount, paymentMethod }) => ...):
\* vendorId is not used
OrderPaid(c, orderId, userId, vendorId, amount, paymentMethod) ==
    /\ sock[c].state = "connected"
    /\ last' = [ev |-> "order-paid", conn |-> c, orderId |-> orderId, userId |-> userId,
                amount |-> amount, paymentMethod |-> paymentMethod]
    /\ out' = OrderPaidEmissions(orderId, userId, amount, paymentMethod)
    /\ UNCHANGED router

\* Mutant of OrderStatusEmissions: the vendor room is not notified
OrderStatusEmissionsClientOnly(orderId, status, clientId) ==
    << Emission("order-status-changed",
                [orderId |-> orderId, status |-> status, timestamp |-> Now],
                IoTo(UserRoom(clientId))) >>

\* The emissions of the order-status-updated handler
OrderStatusEmissions(orderId, status, clientId) ==
    LET changed == [orderId |-> orderId, status |-> status, timestamp |-> Now]
    IN  << Emission("order-status-changed", changed, IoTo(UserRoom(clientId))),
           Emission("order-status-changed", changed, IoTo("vendor")) >>

\* socket.on('order-status-updated', ({ orderId, status, vendorId, clientId }) => ...):
\* vendorId is not used
OrderStatusUpdated(c, orderId, status, vendorId, clientId) ==
    /\ sock[c].state = "connected"
    /\ last' = [ev |-> "order-status-updated", conn |-> c, orderId |-> orderId,
                status |-> status, clientId |-> clientId]
    /\ out' = OrderStatusEmissions(orderId, status, clientId)
    /\ UNCHANGED router

----------------------------------------------------------------------------
\* Specifications

\* Connections, identity and presence
----------------------------------------------------------------------------
\* Server-side emitters, called by the API routes with the order they saved

\* The orders the routes pass: an order may lack userId or status
OrderRecords == [id : OrderIds, userId : {"A", Undefined}, status : Statuses \cup {Undefined}]
\* null passed as the order: reading order.userId throws inside the try block
NullOrder == [null |-> TRUE]
EmitterOrders == OrderRecords \cup {NullOrder}

\* if (order.userId) io.to(`user-${order.userId}`).emit(ev, order)
ToOrderUser(ev, order) ==
    IF order.userId # Undefined
    THEN << Emission(ev, order, IoTo(UserRoom(order.userId))) >>
    ELSE <<>>

\* The emissions of emitOrderCreated; nothing when globalThis.__io is not set
OrderCreatedEmissions(order) ==
    IF ~io.global THEN <<>>
    ELSE << Emission("order-created", order, IoTo("vendor")) >>
         \o (IF order = NullOrder THEN <<>> ELSE ToOrderUser("order-created", order))

\* console.error runs in the catch block only
EmitterLogged(order) == io.global /\ order = NullOrder

EmitOrderCreated(order) ==
    /\ last' = [ev |-> "emitOrderCreated", conn |-> NoConn, order |-> order,
                logged |-> EmitterLogged(order)]
    /\ out' = OrderCreatedEmissions(order)
    /\ UNCHANGED router

\* if (order.status) io.to(`user-${order.userId}`).emit('order-status-changed', ...)
StatusToOrderUser(order) ==
    IF order.status # Undefined
    THEN << Emission("order-status-changed",
                     [orderId |-> order.id, status |-> order.status, timestamp |-> Now],
                     IoTo(UserRoom(order.userId))) >>
    ELSE <<>>

\* The emissions of emitOrderUpdated; nothing when globalThis.__io is not set
OrderUpdatedEmissions(order) ==
    IF ~io.global THEN <<>>
    ELSE << Emission("order-updated", order, IoTo("vendor")) >>
         \o (IF order = NullOrder THEN <<>>
             ELSE ToOrderUser("order-updated", order) \o StatusToOrderUser(order))

EmitOrderUpdated(order) ==
    /\ last' = [ev |-> "emitOrderUpdated", conn |-> NoConn, order |-> order,
                logged |-> EmitterLogged(order)]
    /\ out' = OrderUpdatedEmissions(order)
    /\ UNCHANGED router

----------------------------------------------------------------------------
\* socket.on('get-online-users', callback): one element per entry of the registry,
\* handed to the callback of the requesting socket

\* Mutant of OnlineUsers: a map that swaps the name and the role of every user
OnlineUsersSwapped(m) ==
    [i \in 1..Len(m) |-> [id |-> m[i].userId, name |-> m[i].role,
                          role |-> m[i].name, online |-> TRUE]]

OnlineUsers(m) ==
    [i \in 1..Len(m) |-> [id |-> m[i].userId, name |-> m[i].name,
                          role |-> m[i].role, online |-> TRUE]]

GetOnlineUsers(c) ==
    /\ sock[c].state = "connected"
    /\ last' = [ev |-> "get-online-users", conn |-> c]
    /\ out' = << Emission("callback", OnlineUsers(connectedUsers), SocketEmit(c)) >>
    /\ UNCHANGED router

Presence ==
    \/ InitSocketServer /\ UNCHANGED client
    \/ \E c \in Conns : Connection(c) /\ UNCHANGED client
    \/ \E c \in Conns, u \in UserIds, r \in Roles, n \in Names :
          JoinUser(c, u, r, n) /\ UNCHANGED client
    \/ \E c \in Conns : Disconnect(c) /\ UNCHANGED client

\* Chat events
Chat ==
    \/ \E c \in Conns, ch \in ChatIds, m \in Messages, r \in UserIds, s \in UserIds,
          st \in Stamps : SendMessage(c, ch, m, r, s, st.id, st.timestamp)
    \/ \E c \in Conns, ch \in ChatIds, u \in UserIds, n \in Names : Typing(c, ch, u, n)
    \/ \E c \in Conns, ch \in ChatIds : StopTyping(c, ch)
    \/ \E c \in Conns, ch \in ChatIds, m \in MessageIds, u \in UserIds : MarkRead(c, ch, m, u)

\* Order events
Orders ==
    \/ \E c \in Conns, o \in OrderIds, u \in UserIds, v \in VendorIds,
          a \in Amounts, p \in PaymentMethods : OrderPaid(c, o, u, v, a, p)
    \/ \E c \in Conns, o \in OrderIds, st \in Statuses, v \in VendorIds, cl \in UserIds :
          OrderStatusUpdated(c, o, st, v, cl)

Emitters ==
    \/ \E order \in EmitterOrders : EmitOrderCreated(order)
    \/ \E order \in EmitterOrders : EmitOrderUpdated(order)

Online == \E c \in Conns : GetOnlineUsers(c)

Next == Presence \/ Chat \/ Orders

\* The handlers of the presence, chat and order events
Spec == Init /\ [][Next]_vars

\* The presence registry alone
SpecPresence == Init /\ [][Presence]_vars

\* Connections, identity and presence, every join announcing the same display name
PresenceOneName ==
    \/ InitSocketServer /\ UNCHANGED client
    \/ \E c \in Conns : Connection(c) /\ UNCHANGED client
    \/ \E c \in Conns, u \in UserIds, r \in Roles, n \in OrderNames :
          JoinUser(c, u, r, n) /\ UNCHANGED client
    \/ \E c \in Conns : Disconnect(c) /\ UNCHANGED client

\* The router handling presence and order events
SpecOrders == Init /\ [][PresenceOneName \/ Orders]_vars

\* The router and the server-side emitters
SpecEmitters == Init /\ [][PresenceOneName \/ Emitters]_vars

\* The router answering get-online-users
SpecOnline == Init /\ [][PresenceOneName \/ Online]_vars

\* Every handler and emitter that delivers an event
SpecRouting == Init /\ [][PresenceOneName \/ Chat \/ Orders \/ Emitters]_vars

----------------------------------------------------------------------------
----------------------------------------------------------------------------
\* Events whose handler throws: a destructured payload that is not an object, or
\* get-online-users without a callback function. No handler has a try block, so the
\* exception leaves the listener.
ThrowingEvents == {"join-user", "send-message", "typing", "stop-typing", "mark-read",
                   "order-paid", "order-status-updated", "get-online-users"}

\* The process after an exception nobody caught has ended it: the router, its registry
\* and every connection are gone
Crashed ==
    /\ io' = [server |-> FALSE, global |-> FALSE]
    /\ sock' = [d \in Conns |-> IF sock[d].state = "connected"
                                THEN [sock[d] EXCEPT !.state = "disconnected"]
                                ELSE sock[d]]
    /\ rooms' = [d \in Conns |-> {}]
    /\ connectedUsers' = <<>>
    /\ UNCHANGED <<lastJoin, onlineSent, nJoins, client>>

\* The handler of event ev throws before it has written or emitted anything; the host
\* process either outlives the uncaught exception or ends with it
Malformed(c, ev) ==
    /\ sock[c].state = "connected"
    /\ out' = <<>>
    /\ \/ /\ last' = [ev |-> "malformed", conn |-> c, event |-> ev, crashed |-> FALSE]
          /\ UNCHANGED router
       \/ /\ last' = [ev |-> "malformed", conn |-> c, event |-> ev, crashed |-> TRUE]
          /\ Crashed

Failures == \E c \in Conns, ev \in ThrowingEvents : Malformed(c, ev)

\* The router receiving malformed events
SpecMalformed == Init /\ [][PresenceOneName \/ Failures]_vars

----------------------------------------------------------------------------
\* The join-user payloads a client can send with any of their fields missing
PartialPayloads ==
    [userId : {"A", Undefined}, role : {"client", Undefined}, name : {"n1", Undefined}]

PresencePartial ==
    \/ InitSocketServer /\ UNCHANGED client
    \/ \E c \in Conns : Connection(c) /\ UNCHANGED client
    \/ \E c \in Conns, p \in PartialPayloads :
          JoinUser(c, p.userId, p.role, p.name) /\ UNCHANGED client
    \/ \E c \in Conns : Disconnect(c) /\ UNCHANGED client

\* The router handling presence events whose payloads may lack fields
SpecPartial == Init /\ [][PresencePartial]_vars

\* The emitters next to a router whose clients may send incomplete join-user payloads
SpecEmittersPartial == Init /\ [][PresencePartial \/ Emitters]_vars

----------------------------------------------------------------------------

\* The client adapter useSocket, one instance, and the router it connects to

\* if (!userId || !userName || !userRole) return
Complete(id) == id.userId # Undefined /\ id.role # Undefined /\ id.name # Undefined

\* A socket is live from io(...) until socket.disconnect()
Live(S) == {k \in 1..Len(S) : S[k].status # "closed"}

\* Mutant of Cleanup: an effect that returns no cleanup function
CleanupNothing(S, ref) == S

\* The cleanup of the previous effect: socket.disconnect() closes the socket and its
\* manager, which forget the connection id and the attempts made
Cleanup(S, ref) ==
    IF ref = NoSocket THEN S
    ELSE [S EXCEPT ![ref].status = "closed", ![ref].conn = NoConn, ![ref].attempts = 0]

\* The body of the effect: nothing for an incomplete identity, else io(base, {...})
\* with autoConnect and the handlers that close over the identity of this render
Effect(S, id) ==
    IF Complete(id)
    THEN Append(S, [status |-> "opening", conn |-> NoConn, attempts |-> 0, identity |-> id])
    ELSE S

\* socketRef.current after the effect
RefAfter(S, id) == IF Complete(id) THEN Len(S) + 1 ELSE NoSocket

\* First render of the surface
Mount(id) ==
    /\ surface = "unmounted"
    /\ Complete(id) => Len(sockets) < MaxSockets
    /\ surface' = "mounted"
    /\ identity' = id
    /\ sockets' = Effect(sockets, id)
    /\ socketRef' = RefAfter(sockets, id)
    /\ UNCHANGED <<wire, io, sock, rooms, connectedUsers, last, out, lastJoin,
                   onlineSent, nJoins, ui>>

\* A render with another identity: the dependencies changed, so the cleanup of the
\* previous effect runs and then the effect
Render(id) ==
    /\ surface = "mounted"
    /\ id # identity
    /\ Complete(id) => Len(sockets) < MaxSockets
    /\ identity' = id
    /\ sockets' = Effect(Cleanup(sockets, socketRef), id)
    /\ socketRef' = RefAfter(sockets, id)
    /\ UNCHANGED <<surface, wire, io, sock, rooms, connectedUsers, last, out, lastJoin,
                   onlineSent, nJoins, ui>>

\* The surface is torn down: the cleanup of the last effect runs
Unmount ==
    /\ surface = "mounted"
    /\ surface' = "torn down"
    /\ sockets' = Cleanup(sockets, socketRef)
    /\ socketRef' = NoSocket
    /\ UNCHANGED <<identity, wire, io, sock, rooms, connectedUsers, last, out, lastJoin,
                   onlineSent, nJoins, ui>>

\* Mutant of MayRetry: reconnectionAttempts left at its default, Infinity
MayRetryForever(s) == TRUE

\* The manager opens the transport again while attempts < reconnectionAttempts
MayRetry(s) == s.attempts < ReconnectionAttempts

\* The first open of the transport fails: connect_error is logged, the manager
\* starts reconnecting
OpenFails(k) ==
    /\ sockets[k].status = "opening"
    /\ sockets' = [sockets EXCEPT ![k].status = "reconnecting"]
    /\ UNCHANGED <<surface, identity, socketRef, wire, io, sock, rooms, connectedUsers,
                   last, out, lastJoin, onlineSent, nJoins, ui>>

\* One reconnection attempt that fails
AttemptFails(k) ==
    /\ sockets[k].status = "reconnecting"
    /\ MayRetry(sockets[k])
    /\ sockets' = [sockets EXCEPT ![k].attempts = @ + 1]
    /\ UNCHANGED <<surface, identity, socketRef, wire, io, sock, rooms, connectedUsers,
                   last, out, lastJoin, onlineSent, nJoins, ui>>

\* reconnect_failed: the manager resets its backoff and stops, the socket stays
\* disconnected
GiveUp(k) ==
    /\ sockets[k].status = "reconnecting"
    /\ ~MayRetry(sockets[k])
    /\ sockets' = [sockets EXCEPT ![k].status = "failed", ![k].attempts = 0]
    /\ UNCHANGED <<surface, identity, socketRef, wire, io, sock, rooms, connectedUsers,
                   last, out, lastJoin, onlineSent, nJoins, ui>>

\* The router accepts the transport of socket k as connection c: the first open, or a
\* reconnection attempt that succeeds
Accept(k, c) ==
    /\ \/ sockets[k].status = "opening"
       \/ sockets[k].status = "reconnecting" /\ MayRetry(sockets[k])
    /\ Connection(c)
    /\ sockets' = [sockets EXCEPT ![k].status = "accepted", ![k].conn = c,
                                  ![k].attempts = IF sockets[k].status = "reconnecting"
                                                  THEN @ + 1 ELSE @]
    /\ UNCHANGED <<surface, identity, socketRef, wire, ui>>

\* socket.emit('join-user', { userId, role: userRole, name: userName })
Announce(k) == [wire EXCEPT ![sockets[k].conn] = Append(@, sockets[k].identity)]

\* socket.on('connect', ...) of socket k
OnConnect(k) ==
    /\ sockets[k].status = "accepted"
    /\ sockets' = [sockets EXCEPT ![k].status = "connected", ![k].attempts = 0]
    /\ wire' = Announce(k)
    /\ UNCHANGED <<surface, identity, socketRef, io, sock, rooms, connectedUsers, last, out,
                   lastJoin, onlineSent, nJoins, ui>>

\* The transport of a connected socket is lost: 'disconnect' is logged, the manager
\* starts reconnecting
TransportClose(k) ==
    /\ sockets[k].status = "connected"
    /\ sockets' = [sockets EXCEPT ![k].status = "reconnecting", ![k].conn = NoConn,
                                  ![k].attempts = 0]
    /\ UNCHANGED <<surface, identity, socketRef, wire, io, sock, rooms, connectedUsers,
                   last, out, lastJoin, onlineSent, nJoins, ui>>

\* The router handles the join-user that arrived on connection c
HandleJoin(c) ==
    /\ wire[c] # <<>>
    /\ JoinUser(c, Head(wire[c]).userId, Head(wire[c]).role, Head(wire[c]).name)
    /\ wire' = [wire EXCEPT ![c] = Tail(@)]
    /\ UNCHANGED <<surface, identity, sockets, socketRef, ui>>

\* A client socket uses connection c
Held(c) == \E k \in 1..Len(sockets) :
              sockets[k].conn = c /\ sockets[k].status \in {"accepted", "connected"}

\* The router notices that connection c has closed; what c still had in flight is lost
Dropped(c) ==
    /\ ~Held(c)
    /\ Disconnect(c)
    /\ wire' = [wire EXCEPT ![c] = <<>>]
    /\ UNCHANGED <<surface, identity, sockets, socketRef, ui>>

Adapter ==
    \/ InitSocketServer /\ UNCHANGED client
    \/ \E id \in Identities : Mount(id)
    \/ \E id \in Identities : Render(id)
    \/ Unmount
    \/ \E k \in DOMAIN sockets : OpenFails(k)
    \/ \E k \in DOMAIN sockets : AttemptFails(k)
    \/ \E k \in DOMAIN sockets : GiveUp(k)
    \/ \E k \in DOMAIN sockets, c \in Conns : Accept(k, c)
    \/ \E k \in DOMAIN sockets : OnConnect(k)
    \/ \E k \in DOMAIN sockets : TransportClose(k)
    \/ \E c \in Conns : HandleJoin(c)
    \/ \E c \in Conns : Dropped(c)

\* One instance of the client adapter and the router
SpecAdapter == Init /\ [][Adapter]_vars

\* The router's event loop handles every join-user it has received, and the router
\* notices every connection that has closed (disconnect packet or ping timeout)
SpecAdapterFair ==
    SpecAdapter /\ \A c \in Conns : WF_vars(HandleJoin(c)) /\ WF_vars(Dropped(c))

----------------------------------------------------------------------------

\* The UI surfaces and the listeners they keep on the socket useSocket gave them

\* The events page p listens to
PageEvents(p) ==
    CASE p = "orders" -> {"order-updated", "order-created", "order-status-changed"}
      [] p = "vendor" -> {"order-created", "order-updated"}
      [] p = "chat" -> {"receive-message"}
      [] OTHER -> {}

\* The cleanup the subscription effect of page p returns: the orders page returns none,
\* the vendor dashboard calls socket.off(event), which removes every listener of the
\* event, the chat page calls socket.off(event, handler), which removes its own
Cleaned(p, h) ==
    CASE p = "vendor" -> [e \in SurfaceEvents |-> IF e \in PageEvents(p) THEN 0 ELSE h[e]]
      [] p = "chat" -> [e \in SurfaceEvents |->
                           IF e \in PageEvents(p) /\ h[e] > 0 THEN h[e] - 1 ELSE h[e]]
      [] OTHER -> h

\* socket.on(event, handler) for every event of page p
Registered(p, h) ==
    [e \in SurfaceEvents |-> IF e \in PageEvents(p) THEN h[e] + 1 ELSE h[e]]

\* The page returns a cleanup from a run that registered its listeners
ReturnsCleanup(p) == p \in {"vendor", "chat"}

\* One run of the subscription effect: the cleanup of the previous run, then the body,
\* which registers the listeners unless it returns early (session loading or missing)
RunEffect(p, registers) ==
    /\ effectRuns < MaxRuns
    /\ effectRuns' = effectRuns + 1
    /\ handlers' = LET h == IF pending THEN Cleaned(p, handlers) ELSE handlers
                   IN  IF registers THEN Registered(p, h) ELSE h
    /\ subscribed' = registers
    /\ pending' = (registers /\ ReturnsCleanup(p))

\* The surface p is mounted with a socket: first run of its effect
PageMount(p, registers) ==
    /\ ~pageMounted
    /\ page \in {"none", p}
    /\ page' = p
    /\ pageMounted' = TRUE
    /\ RunEffect(p, registers)
    /\ UNCHANGED <<invoked, selected, timers, timeoutRef, keys, owed, adapter,
                   io, sock, rooms, connectedUsers, last, out, lastJoin, onlineSent, nJoins>>

\* A dependency of the effect changes (session, status, router) while the socket stays
PageRerun(registers) ==
    /\ pageMounted
    /\ RunEffect(page, registers)
    /\ UNCHANGED <<page, pageMounted, invoked, selected, timers, timeoutRef, keys, owed,
                   adapter, io, sock, rooms, connectedUsers, last, out, lastJoin,
                   onlineSent, nJoins>>

\* The surface is unmounted: its cleanup runs, and useSocket closes the socket, so the
\* next mount starts on a new socket without listeners
PageUnmount ==
    /\ pageMounted
    /\ pageMounted' = FALSE
    /\ handlers' = [e \in SurfaceEvents |-> 0]
    /\ pending' = FALSE
    /\ subscribed' = FALSE
    /\ UNCHANGED <<page, effectRuns, invoked, selected, timers, timeoutRef, keys, owed,
                   adapter, io, sock, rooms, connectedUsers, last, out, lastJoin,
                   onlineSent, nJoins>>

\* The socket of the surface receives event e: every listener of e is invoked
Deliver(e) ==
    /\ pageMounted
    /\ e \in PageEvents(page)
    /\ invoked' = [event |-> e, count |-> handlers[e]]
    /\ UNCHANGED <<page, pageMounted, handlers, pending, subscribed, effectRuns,
                   selected, timers, timeoutRef, keys, owed, adapter,
                   io, sock, rooms, connectedUsers, last, out, lastJoin, onlineSent, nJoins>>

Surface ==
    \/ \E p \in Pages, registers \in BOOLEAN : PageMount(p, registers)
    \/ \E registers \in BOOLEAN : PageRerun(registers)
    \/ PageUnmount
    \/ \E e \in SurfaceEvents : Deliver(e)

\* One UI surface and the listeners on its socket
SpecSurface == Init /\ [][Surface]_vars

----------------------------------------------------------------------------
\* The message input of the chat page

\* clearTimeout(typingTimeoutRef.current)
Cleared(T, ref) == {t \in T : t.id # ref}

\* The user opens chat session ch
SelectSession(ch) ==
    /\ selected # ch
    /\ selected' = ch
    /\ UNCHANGED <<timers, timeoutRef, keys, owed, page, pageMounted, handlers, pending,
                   subscribed, effectRuns, invoked, adapter,
                   io, sock, rooms, connectedUsers, last, out, lastJoin, onlineSent, nJoins>>

\* onChange of the input: the timer the ref names is cleared, typing is emitted for the
\* selected session, and a timer is armed that will emit stop-typing for that session
Keystroke ==
    /\ selected # NoSession
    /\ keys < MaxKeys
    /\ keys' = keys + 1
    /\ timers' = Cleared(timers, timeoutRef) \cup {[id |-> keys + 1, chatId |-> selected]}
    /\ timeoutRef' = keys + 1
    /\ owed' = owed \cup {selected}
    /\ UNCHANGED <<selected, page, pageMounted, handlers, pending, subscribed, effectRuns,
                   invoked, adapter,
                   io, sock, rooms, connectedUsers, last, out, lastJoin, onlineSent, nJoins>>

\* A timer fires after 2000 ms: stop-typing is emitted for the session of its keystroke
TimerFires(t) ==
    /\ t \in timers
    /\ timers' = timers \ {t}
    /\ owed' = owed \ {t.chatId}
    /\ UNCHANGED <<selected, timeoutRef, keys, page, pageMounted, handlers, pending,
                   subscribed, effectRuns, invoked, adapter,
                   io, sock, rooms, connectedUsers, last, out, lastJoin, onlineSent, nJoins>>

TimerIds == 1..MaxKeys

TypingInput ==
    \/ \E ch \in Sessions : SelectSession(ch)
    \/ Keystroke
    \/ \E i \in TimerIds, ch \in Sessions : TimerFires([id |-> i, chatId |-> ch])

\* The chat page's message input
SpecTyping == Init /\ [][TypingInput]_vars

----------------------------------------------------------------------------

----------------------------------------------------------------------------
\* The /api/socketio route

\* Mutant of RegistryAfterInit: an initSocketServer that creates its registry on every call
RegistryAfterInitFresh(m) == <<>>

\* The registry the connection handlers use after a call of initSocketServer: a new
\* Map when the server object has no router, the one of the existing router otherwise
RegistryAfterInit(m) == IF ~io.server THEN <<>> ELSE m

\* ioHandler: initSocketServer(res), then res.end()
IoHandler ==
    /\ io' = [server |-> TRUE, global |-> (~io.server \/ io.global)]
    /\ connectedUsers' = RegistryAfterInit(connectedUsers)
    /\ last' = [ev |-> "ioHandler", conn |-> NoConn, created |-> ~io.server]
    /\ out' = <<>>
    /\ UNCHANGED <<sock, rooms, lastJoin, onlineSent, nJoins>>

\* The router and the route handler that creates it, called any number of times
SpecRoute == Init /\ [][PresenceOneName \/ (IoHandler /\ UNCHANGED client)]_vars

\* Reading the emissions of the last handler

\* The emissions of event ev that connection d received
Got(d, ev) == {i \in 1..Len(out) : out[i].ev = ev /\ d \in out[i].to}

\* The emissions of event ev
Emitted(ev) == {i \in 1..Len(out) : out[i].ev = ev}

\* The connections of user u: those whose latest join-user announced u
ConnsOf(u) == {d \in Connected : sock[d].userId = u}

\* User u is offline: no connection is identified as u and the registry has no entry for u
Offline(u) == ConnsOf(u) = {} /\ u \notin Keys(connectedUsers)

----------------------------------------------------------------------------
\* C1: a send-message{senderId = A, recipientId = B} sent by A's connection while B is
\* connected puts exactly one receive-message on B's personal channel and exactly one
\* message-sent on the emitting connection, and no connection of a user other than A
\* or B receives either event.
C1_MessageReachesOnlySenderAndRecipient ==
    (/\ last.ev = "send-message"
     /\ sock[last.conn].userId = last.senderId
     /\ ConnsOf(last.recipientId) # {})
    => /\ Cardinality(Emitted("receive-message")) = 1
       /\ \A d \in ConnsOf(last.recipientId) : Cardinality(Got(d, "receive-message")) = 1
       /\ Cardinality(Got(last.conn, "message-sent")) = 1
       /\ \A d \in Conns \ {last.conn} : Got(d, "message-sent") = {}
       /\ \A d \in Conns :
             Got(d, "receive-message") \cup Got(d, "message-sent") # {}
             => sock[d].userId \in {last.senderId, last.recipientId}

\* C2: a typing (stop-typing) event a participant emits for chat session c is received
\* as user-typing (user-stop-typing) by every connection of the other participant of c,
\* and never by the emitting connection.
C2_TypingReachesOtherParticipants ==
    (/\ last.ev \in {"typing", "stop-typing"}
     /\ sock[last.conn].userId \in Participants(last.chatId))
    => LET ev == IF last.ev = "typing" THEN "user-typing" ELSE "user-stop-typing"
       IN  /\ Got(last.conn, ev) = {}
           /\ \A d \in Connected :
                 sock[d].userId \in Participants(last.chatId) \ {sock[last.conn].userId}
                 => Got(d, ev) # {}

\* C3: the registry holds at most one entry per user id, and the entry of a user id
\* names the connection of the most recent join-user for that id.
C3_OneEntryPerUserNamingLatestJoin ==
    /\ Cardinality(Keys(connectedUsers)) = Len(connectedUsers)
    /\ \A i \in 1..Len(connectedUsers) :
          connectedUsers[i].socketId = lastJoin[connectedUsers[i].userId]

\* C3 witness: a user joined on connection 1 and then on connection 2 (a reconnect),
\* and the single entry names connection 2.
C3_Reconnected ==
    /\ Len(connectedUsers) = 1
    /\ connectedUsers[1].socketId = 2
    /\ sock[1].userId = connectedUsers[1].userId
    /\ sock[2].userId = connectedUsers[1].userId
    /\ {1, 2} \subseteq Connected

\* C4: every join-user is undone by the disconnect of its connection, so once every
\* connection has disconnected the registry size is back at its value before the
\* first join: no entry is leaked.
C4_SizeRestoredAfterDisconnects ==
    Connected = {} => Len(connectedUsers) = 0

\* C5: order-paid{orderId, userId = A} puts one new-order-payment with that orderId,
\* userId, amount and paymentMethod on every connection of the vendor channel and one
\* payment-confirmed{orderId} on every connection of user-A; no other connection
\* receives either event.
C5_OrderPaidRouting ==
    last.ev = "order-paid"
    => /\ Cardinality(Emitted("new-order-payment")) = 1
       /\ Cardinality(Emitted("payment-confirmed")) = 1
       /\ Len(out) = 2
       /\ \A d \in Conns :
             /\ Got(d, "new-order-payment") # {} <=> (d \in Connected /\ "vendor" \in rooms[d])
             /\ Got(d, "payment-confirmed") # {}
                   <=> (d \in Connected /\ ("user-" \o last.userId) \in rooms[d])
       /\ \A i \in Emitted("new-order-payment") :
             /\ out[i].data.orderId = last.orderId
             /\ out[i].data.userId = last.userId
             /\ out[i].data.amount = last.amount
             /\ out[i].data.paymentMethod = last.paymentMethod
       /\ \A i \in Emitted("payment-confirmed") : out[i].data = [orderId |-> last.orderId]

\* C5 witness: the payment of a client reached a vendor connection and, as
\* payment-confirmed, another connection that is not in the vendor channel.
C5_VendorAndPayerNotified ==
    /\ last.ev = "order-paid"
    /\ \E d1, d2 \in Conns :
          /\ d1 # d2
          /\ Got(d1, "new-order-payment") # {} /\ Got(d1, "payment-confirmed") = {}
          /\ Got(d2, "payment-confirmed") # {} /\ Got(d2, "new-order-payment") = {}

\* C6: order-status-updated{orderId, status, clientId = C} puts order-status-changed
\* with that orderId and status on user-C and on the vendor channel; a connection in
\* neither channel receives nothing.
C6_OrderStatusRouting ==
    last.ev = "order-status-updated"
    => /\ \A i \in 1..Len(out) :
             /\ out[i].ev = "order-status-changed"
             /\ out[i].data.orderId = last.orderId
             /\ out[i].data.status = last.status
       /\ \A d \in Conns :
             LET inUser == d \in Connected /\ ("user-" \o last.clientId) \in rooms[d]
                 inVendor == d \in Connected /\ "vendor" \in rooms[d]
             IN  Cardinality(Got(d, "order-status-changed"))
                    = (IF inUser THEN 1 ELSE 0) + (IF inVendor THEN 1 ELSE 0)

\* C6 witness: the status change reached the client's connection and a vendor
\* connection, once each.
C6_ClientAndVendorNotified ==
    /\ last.ev = "order-status-updated"
    /\ \E d1, d2 \in Conns :
          /\ d1 # d2
          /\ sock[d1].userId = last.clientId /\ "vendor" \notin rooms[d1]
          /\ Cardinality(Got(d1, "order-status-changed")) = 1
          /\ "vendor" \in rooms[d2] /\ ("user-" \o last.clientId) \notin rooms[d2]
          /\ Cardinality(Got(d2, "order-status-changed")) = 1

C8_OfflineTargetReceivesNothing ==
    /\ (last.ev = "send-message" /\ Offline(last.recipientId))
          => \A d \in Conns : Got(d, "receive-message") = {}
    /\ (last.ev = "order-paid" /\ Offline(last.userId))
          => \A d \in Conns : Got(d, "payment-confirmed") = {}
    /\ (last.ev = "order-status-updated" /\ Offline(last.clientId))
          => out[1].to = {}

\* C9: mark-read{chatId, messageId, userId} emitted by a participant of the session puts
\* message-read{chatId, messageId, userId} on the emitting connection and on the
\* connections of the other participant.
C9_MessageReadReachesSession ==
    (/\ last.ev = "mark-read"
     /\ sock[last.conn].userId \in Participants(last.chatId))
    => /\ \A i \in 1..Len(out) :
             out[i].data = [chatId |-> last.chatId, messageId |-> last.messageId,
                            userId |-> last.userId]
       /\ Got(last.conn, "message-read") # {}
       /\ \A d \in Connected :
             sock[d].userId \in Participants(last.chatId) => Got(d, "message-read") # {}

\* C10 as stated: the disconnect of every connection that had joined broadcasts
\* user-offline exactly once, whatever happened since its join.
C10_EveryDisconnectBroadcastsOffline ==
    (last.ev = "disconnect" /\ sock[last.conn].userId # Unset)
    => Cardinality(Emitted("user-offline")) = 1

\* C10 amended: a connection disconnects at most once; its disconnect removes one
\* presence entry and broadcasts one user-offline for it when the registry holds an
\* entry naming the connection, and removes and broadcasts nothing otherwise.
C10_DisconnectRemovesWhatItOwns ==
    [][\A c \in Conns :
          /\ sock[c].state = "disconnected" => sock'[c].state = "disconnected"
          /\ (sock[c].state = "connected" /\ sock'[c].state = "disconnected")
             => IF Matching(connectedUsers, c) = {}
                THEN out' = <<>> /\ connectedUsers' = connectedUsers
                ELSE /\ Len(out') = 1
                     /\ out'[1].ev = "user-offline"
                     /\ Len(connectedUsers') = Len(connectedUsers) - 1
                     /\ \E i \in Matching(connectedUsers, c) :
                           /\ connectedUsers[i].userId = out'[1].data.userId
                           /\ connectedUsers[i].userId \notin Keys(connectedUsers')
       ]_vars

\* C10 witness: a connection that had joined disconnected after another connection
\* re-joined its user id, and nothing was broadcast.
C10_SupersededDisconnect ==
    /\ last.ev = "disconnect"
    /\ sock[last.conn].userId # Unset
    /\ lastJoin[sock[last.conn].userId] # last.conn
    /\ out = <<>>

----------------------------------------------------------------------------
\* C11: every entry of the presence registry carries a user id, a role and a name that
\* are present (not undefined), whatever join-user payloads the clients have sent,
\* payloads with missing fields included.
C11_EntriesCarryIdRoleName ==
    \A i \in 1..Len(connectedUsers) :
        /\ connectedUsers[i].userId # Undefined
        /\ connectedUsers[i].role # Undefined
        /\ connectedUsers[i].name # Undefined

----------------------------------------------------------------------------
\* The user whose personal channel the last handled request or emitter call names
LastOrderUserRooms ==
    CASE last.ev = "order-status-updated" -> {UserRoom(last.clientId)}
      [] last.ev \in {"emitOrderCreated", "emitOrderUpdated"} ->
            IF last.order = NullOrder THEN {} ELSE {UserRoom(last.order.userId)}
      [] OTHER -> {}

\* The channels the emission e of the last handler targets
ChannelsOf(e) ==
    CASE e.ev = "receive-message" -> {UserRoom(last.recipientId)}
      [] e.ev \in {"user-typing", "user-stop-typing", "message-read"} -> {last.chatId}
      [] e.ev = "new-order-payment" -> {"vendor"}
      [] e.ev = "payment-confirmed" -> {UserRoom(last.userId)}
      [] e.ev \in {"order-status-changed", "order-created", "order-updated"} ->
            {"vendor"} \cup LastOrderUserRooms
      [] OTHER -> {}

GlobalEvents == {"user-online", "user-offline"}
ScopedEvents == {"receive-message", "user-typing", "user-stop-typing", "message-read",
                 "new-order-payment", "payment-confirmed", "order-status-changed",
                 "order-created", "order-updated"}

\* C12: user-online and user-offline reach every connection that is connected when they
\* are emitted, identified or not, the joining connection included; message-sent
\* reaches the requesting connection only; every other event reaches only connections
\* that are members of a channel the event targets.
C12_PresenceGlobalOthersScoped ==
    \A i \in 1..Len(out) :
        /\ out[i].ev \in GlobalEvents => out[i].to = Connected
        /\ out[i].ev = "message-sent" => out[i].to = {last.conn}
        /\ out[i].ev \in ScopedEvents =>
              \A d \in out[i].to : ChannelsOf(out[i]) \cap rooms[d] # {}
        /\ out[i].ev \in GlobalEvents \cup ScopedEvents \cup {"message-sent"}

\* A join-user whose user-online reaches both the joining connection and a connection
\* that has not identified itself
C12_AnonymousHearsOnline ==
    /\ last.ev = "join-user"
    /\ last.conn \in out[1].to
    /\ \E d \in out[1].to : sock[d].userId = Unset

----------------------------------------------------------------------------
\* C13: handling get-online-users invokes the requester's callback exactly once, with
\* one {id, name, role, online: true} element per entry of the presence registry in the
\* registry's order, sends nothing to any other connection, and leaves the registry,
\* the channel membership and the connections as they were.
C13_OnlineUsersAnswersRequesterOnly ==
    [][last'.ev = "get-online-users" =>
          /\ Len(out') = 1
          /\ out'[1].ev = "callback"
          /\ out'[1].to = {last'.conn}
          /\ Len(out'[1].data) = Len(connectedUsers)
          /\ \A i \in 1..Len(connectedUsers) :
                out'[1].data[i] = [id |-> connectedUsers[i].userId,
                                   name |-> connectedUsers[i].name,
                                   role |-> connectedUsers[i].role, online |-> TRUE]
          /\ UNCHANGED <<connectedUsers, rooms, sock, io>>]_vars

\* A request answered with two users while another connection is connected
C13_TwoUsersReported ==
    /\ last.ev = "get-online-users"
    /\ Len(out) = 1
    /\ Len(out[1].data) = 2
    /\ Connected \ {last.conn} # {}

----------------------------------------------------------------------------
\* C14: the receive-message and the message-sent of one send-message carry the same
\* record; its chatId, senderId, message and recipientId are the request's; its id and
\* its timestamp are the request's when the request supplies them, and are generated by
\* the router only when the request has none.
C14_RecordCarriesRequestFields ==
    last.ev = "send-message" =>
        /\ Len(out) = 2
        /\ out[1].ev = "receive-message" /\ out[2].ev = "message-sent"
        /\ out[1].data = out[2].data
        /\ out[1].data.chatId = last.chatId
        /\ out[1].data.senderId = last.senderId
        /\ out[1].data.message = last.message
        /\ out[1].data.recipientId = last.recipientId
        /\ out[1].data.id = (IF last.id # Undefined THEN last.id ELSE GeneratedId)
        /\ out[1].data.timestamp =
              (IF last.timestamp # Undefined THEN last.timestamp ELSE Now)

----------------------------------------------------------------------------
DomainEvents == {"send-message", "typing", "stop-typing", "mark-read",
                 "order-paid", "order-status-updated"}

\* Connection c has not sent join-user
Anonymous(c) == sock[c].userId = Unset

\* C15: a domain event (send-message, typing, stop-typing, mark-read, order-paid,
\* order-status-updated) emitted by a connection that has not sent join-user is
\* delivered to no connection.
C15_AnonymousEventsDeliverNothing ==
    (last.ev \in DomainEvents /\ Anonymous(last.conn)) =>
        \A i \in 1..Len(out) : out[i].to = {}

----------------------------------------------------------------------------
Disconnected(c) == sock[c].state = "disconnected"

\* C16: once the disconnect of a connection has been handled, the connection is in no
\* room, no emission reaches it, the router handles no further event from it and its
\* identity fields never change again; and a connection that has just been accepted
\* has no identity, no room and no entry of the presence registry naming it.
C16_DisconnectedIsTerminal ==
    [][\A c \in Conns :
          /\ Disconnected(c)' =>
                /\ rooms'[c] = {}
                /\ \A i \in 1..Len(out') : c \notin out'[i].to
          /\ Disconnected(c) =>
                /\ sock'[c] = sock[c]
                /\ last'.conn = c => last' = last
          /\ (sock[c].state = "fresh" /\ sock'[c].state = "connected") =>
                /\ sock'[c].userId = Unset
                /\ rooms'[c] = {}
                /\ Matching(connectedUsers', c) = {}]_vars

\* A user who was identified on a connection that is now disconnected joins again on
\* a later connection, and the user-online of that join reaches the new connection
C16_UserBackOnNewConnection ==
    /\ last.ev = "join-user"
    /\ last.conn \in out[1].to
    /\ \E c \in Conns : /\ c < last.conn
                        /\ Disconnected(c)
                        /\ sock[c].userId = last.userId

----------------------------------------------------------------------------
\* Socket k of the adapter is connected as connection c
ConnectedAs(k, c) ==
    /\ k \in DOMAIN sockets
    /\ sockets[k].status = "connected"
    /\ sockets[k].conn = c

\* The presence entry of the user of socket k names connection c
EntryNames(k, c) ==
    \E i \in 1..Len(connectedUsers) :
        /\ connectedUsers[i].userId = sockets[k].identity.userId
        /\ connectedUsers[i].socketId = c

\* C17: every time a socket of the adapter becomes connected, on its first connect and
\* on every reconnect, it sends exactly one join-user carrying the identity it was
\* created with, on the connection it has just got, and nothing on any other; and
\* whenever a socket of the adapter is connected, the presence entry of its user
\* eventually names its connection, unless the socket loses the connection first.
C17_AnnouncesOnEveryConnect ==
    /\ [][\A k \in DOMAIN sockets :
             (sockets[k].status # "connected" /\ sockets'[k].status = "connected") =>
                 wire' = [wire EXCEPT ![sockets'[k].conn] =
                                          Append(@, sockets[k].identity)]]_vars
    /\ \A k \in 1..MaxSockets, c \in Conns :
          ConnectedAs(k, c) ~> (~ConnectedAs(k, c) \/ EntryNames(k, c))

\* A socket that lost its first connection is connected again on a later connection,
\* and the presence entry of its user names that connection
C17_ReannouncedAfterReconnect ==
    \E k \in DOMAIN sockets, c \in Conns :
        /\ ConnectedAs(k, c)
        /\ EntryNames(k, c)
        /\ \E d \in Conns : d < c /\ sock[d].userId = sockets[k].identity.userId

----------------------------------------------------------------------------
\* C18: a socket of the adapter never makes more than ReconnectionAttempts (8)
\* reconnection attempts in one outage; once all of them have failed it makes no
\* further attempt and stays without a connection until it is closed; and a failed
\* open, a failed attempt, giving up or losing the transport leaves the surface
\* mounted and the adapter's socket handle as it was.
C18_BoundedReconnection ==
    [][\A k \in DOMAIN sockets :
          /\ sockets'[k].attempts <= ReconnectionAttempts
          /\ (sockets[k].status = "reconnecting"
                /\ sockets[k].attempts = ReconnectionAttempts) =>
                /\ sockets'[k].status \in {"reconnecting", "failed", "closed"}
                /\ sockets'[k].attempts \in {sockets[k].attempts, 0}
          /\ sockets[k].status = "failed" =>
                /\ sockets'[k].status \in {"failed", "closed"}
                /\ sockets'[k].conn = sockets[k].conn
          /\ (sockets'[k].status \in {"reconnecting", "failed"}
                /\ sockets'[k] # sockets[k]) =>
                /\ surface' = surface
                /\ socketRef' = socketRef
                /\ Len(sockets') = Len(sockets)]_vars

\* A socket that gave up after a lost connection, its surface still mounted
C18_GaveUpStillMounted ==
    \E k \in DOMAIN sockets :
        /\ sockets[k].status = "failed"
        /\ \E c \in Conns : wire[c] # <<>> \/ sock[c].userId = sockets[k].identity.userId
        /\ surface = "mounted"
        /\ socketRef = k

----------------------------------------------------------------------------
----------------------------------------------------------------------------
\* C20: a call of emitOrderCreated or emitOrderUpdated made while the process-wide
\* router handle is absent logs the absence and delivers nothing.
C20_AbsentHandleLoggedNoOp ==
    (last.ev \in {"emitOrderCreated", "emitOrderUpdated"} /\ ~io.global) =>
        /\ last.logged
        /\ out = <<>>

----------------------------------------------------------------------------
\* The last call was emitOrderUpdated, with the router handle set and an order record
UpdatedCall ==
    /\ last.ev = "emitOrderUpdated"
    /\ io.global
    /\ last.order # NullOrder

\* C21: when emitOrderUpdated is called for an order that has a status, every
\* connection in the vendor room receives order-status-changed for that order.
C21_StatusChangeReachesVendors ==
    (UpdatedCall /\ last.order.status # Undefined) =>
        \A d \in IoTo("vendor") :
            \E i \in Got(d, "order-status-changed") : out[i].data.orderId = last.order.id

\* The last call was emitOrderCreated, with the router handle set and an order record
CreatedCall ==
    /\ last.ev = "emitOrderCreated"
    /\ io.global
    /\ last.order # NullOrder

\* Connection d is in the vendor room or in the personal room of the order's owner
OrderAudience(d, order) ==
    \/ "vendor" \in rooms[d]
    \/ order.userId # Undefined /\ UserRoom(order.userId) \in rooms[d]

\* C22: emitOrderCreated delivers order-created to exactly the connections of the
\* vendor room and, when order.userId is set, of the owner's personal room;
\* emitOrderUpdated delivers order-updated to the same connections, and delivers
\* order-status-changed to exactly the connections of the owner's personal room when
\* both order.status and order.userId are set, and to no connection otherwise.
C22_EmitterTargets ==
    /\ CreatedCall =>
          \A d \in Connected :
              /\ Got(d, "order-created") # {} <=> OrderAudience(d, last.order)
              /\ \A i \in 1..Len(out) : out[i].ev = "order-created"
    /\ UpdatedCall =>
          \A d \in Connected :
              /\ Got(d, "order-updated") # {} <=> OrderAudience(d, last.order)
              /\ Got(d, "order-status-changed") # {} <=>
                    /\ last.order.status # Undefined
                    /\ last.order.userId # Undefined
                    /\ UserRoom(last.order.userId) \in rooms[d]
              /\ \A i \in 1..Len(out) : out[i].ev \in {"order-updated", "order-status-changed"}

----------------------------------------------------------------------------
\* C23: handling a malformed event (a join-user, send-message, typing, mark-read,
\* order-paid or order-status-updated without a payload object, or a get-online-users
\* without a callback) leaves the router, the presence registry, the room membership
\* and every connection as they were before the event.
C23_MalformedEventChangesNothing ==
    [][last'.ev = "malformed" => UNCHANGED <<io, connectedUsers, rooms, sock>>]_vars


----------------------------------------------------------------------------
\* C24: a UI surface never holds more than one listener of an event on its socket, so
\* a delivered order-updated, order-created, order-status-changed or receive-message
\* invokes the surface's handler at most once, and exactly once while the surface is
\* subscribed.
C24_NoDuplicateListeners ==
    /\ \A e \in SurfaceEvents : handlers[e] <= 1
    /\ invoked.count <= 1
    /\ (pageMounted /\ subscribed) => \A e \in PageEvents(page) : handlers[e] = 1


\* C25: every entry of the presence registry names a connection that is currently
\* connected, also after one connection joined under two user ids and disconnected,
\* and when several connections joined under the same user id.
C25_EntriesNameLiveConnections ==
    \A i \in 1..Len(connectedUsers) : connectedUsers[i].socketId \in Connected


\* C26: a connection is a member of no other channel than user-<u> and the role
\* channel of its most recent join-user{userId = u, role}: a second join-user under
\* another user id or role does not leave it in a channel of the earlier join.
C26_MembershipIsLatestJoin ==
    \A c \in Conns :
        rooms[c] \subseteq (IF sock[c].userId = Unset THEN {}
                            ELSE {UserRoom(sock[c].userId), sock[c].userRole})


----------------------------------------------------------------------------
\* Connection c1 announced user u and another connection has joined as u since:
\* the entry of u names that later connection
Superseded(c1, u) ==
    /\ sock[c1].state = "connected"
    /\ onlineSent[c1][u] # <<>>
    /\ u \in Keys(connectedUsers)
    /\ connectedUsers[IndexOf(connectedUsers, u)].socketId # c1

\* The entries of registry m that do not name connection c
EntriesOfOthers(m, c) == {m[i] : i \in {j \in 1..Len(m) : m[j].socketId # c}}

----------------------------------------------------------------------------
\* C28: the router is created at most once and stored under both handles; a call of
\* the /api/socketio route handler on a server that has its router changes neither the
\* router, nor the presence registry, nor the rooms, nor any connection.
C28_InitIsIdempotent ==
    /\ [](io.server = io.global)
    /\ [][/\ io.server => io' = io
          /\ (io.server /\ last'.ev = "ioHandler")
             => /\ ~last'.created
                /\ UNCHANGED <<connectedUsers, rooms, sock>>
       ]_vars

\* C28 witness: the route handler ran again while two users were present.
C28_CalledAgainWithUsersPresent ==
    /\ last.ev = "ioHandler"
    /\ ~last.created
    /\ Len(connectedUsers) = 2
    /\ \E c \in Connected : rooms[c] # {}


----------------------------------------------------------------------------
\* C29: every chat session for which typing was emitted and no stop-typing since has
\* a pending timer that will emit stop-typing for that session, also after the user
\* selected another session or kept typing; and at most one timer is pending.
C29_StopTypingIsArmed ==
    /\ \A c \in owed : \E t \in timers : t.chatId = c
    /\ Cardinality(timers) <= 1


----------------------------------------------------------------------------
\* C30: the senderId of every receive-message and message-sent that is delivered to a
\* connection is the user id the emitting connection announced in its join-user, for
\* every send-message of a connection that has announced one.
C30_SenderIdIsAnnouncedId ==
    (last.ev = "send-message" /\ sock[last.conn].userId # Unset)
    => \A i \in 1..Len(out) :
          (out[i].ev \in {"receive-message", "message-sent"} /\ out[i].to # {})
          => out[i].data.senderId = sock[last.conn].userId

====
